---- MODULE Spec2Model ----
(***************************************************************************)
(* A model of the Discourses Python SDK: the Era enumeration and its       *)
(* string conversion (constants.py), the exception hierarchy               *)
(* (exceptions.py), the response models (models.py) and the client         *)
(* (client.py): local validation, the single network round trip and the    *)
(* interpretation of the response.                                         *)
(*                                                                         *)
(* Python values are tagged records, so that isinstance and truthiness are *)
(* computed as Python computes them.  Strings the code inspects character  *)
(* by character (texts, era tokens, header values) are sequences of        *)
(* one-character strings; strings it only passes around are TLA+ strings.  *)
(***************************************************************************)
EXTENDS Integers, Sequences, FiniteSets, TLC

VARIABLES client, pc, call, wire, netCalls, response, outcome, view, previous

vars == <<client, pc, call, wire, netCalls, response, outcome, view, previous>>

(***************************************************************************)
(* Bounds of the model.                                                    *)
(***************************************************************************)
MaxPad == 1        \* whitespace characters on each side of an era string
MaxUpper == 2      \* upper-cased positions of an era string (or all of them)
MaxTextLen == 2    \* length of a text argument
MaxEras == 2       \* length of the eras argument of compare_eras
MaxBatch == 2      \* length of the texts argument of batch
MaxHdrLen == 2     \* length of an X-RateLimit-Reset header value
MaxResults == 2    \* entries of the results mapping of a batch payload

(***************************************************************************)
(* Python values.                                                          *)
(***************************************************************************)
PyNone == [tag |-> "None"]
\* A str whose characters the code inspects: a sequence of characters.
Str(s) == [tag |-> "str", val |-> s]
\* A str the code only passes around: a literal.
Lit(t) == [tag |-> "str", lit |-> t]
\* An f-string: the format and the values formatted into it.
Fmt(f, args) == [tag |-> "str", fmt |-> f, args |-> args]
IntV(n) == [tag |-> "int", val |-> n]
\* A float, in hundredths.
FloatV(h) == [tag |-> "float", val |-> h]
EraMember(m) == [tag |-> "Era", name |-> m]
List(items) == [tag |-> "list", items |-> items]
Dict(map) == [tag |-> "dict", map |-> map]
Other == [tag |-> "other"]

EmptyMap == [k \in {} |-> PyNone]

\* bool(v): None, "", [], {} and 0 are falsy.
Truthy(v) ==
    CASE v.tag = "None" -> FALSE
      [] v.tag = "str" ->
            IF "val" \in DOMAIN v THEN v.val # <<>>
            ELSE IF "lit" \in DOMAIN v THEN v.lit # ""
            ELSE TRUE
      [] v.tag \in {"int", "float"} -> v.val # 0
      [] v.tag = "list" -> v.items # <<>>
      [] v.tag = "dict" -> DOMAIN v.map # {}
      [] OTHER -> TRUE

\* dict.get(key, default)
Get(d, key, default) == IF key \in DOMAIN d.map THEN d.map[key] ELSE default

\* The Omitted marker stands for an argument the caller leaves out.
Omitted == [tag |-> "omitted"]
ArgOr(v, default) == IF v = Omitted THEN default ELSE v

(***************************************************************************)
(* str.lower() and str.strip() on sequences of characters.                 *)
(***************************************************************************)
UpperLetters == <<"A","B","C","D","E","F","G","H","I","J","K","L","M",
                  "N","O","P","Q","R","S","T","U","V","W","X","Y","Z">>
LowerLetters == <<"a","b","c","d","e","f","g","h","i","j","k","l","m",
                  "n","o","p","q","r","s","t","u","v","w","x","y","z">>
Whitespace == {" ", "\t", "\n", "\r"}

LowerChar(c) ==
    IF \E i \in DOMAIN UpperLetters : UpperLetters[i] = c
    THEN LowerLetters[CHOOSE i \in DOMAIN UpperLetters : UpperLetters[i] = c]
    ELSE c

UpperChar(c) ==
    IF \E i \in DOMAIN LowerLetters : LowerLetters[i] = c
    THEN UpperLetters[CHOOSE i \in DOMAIN LowerLetters : LowerLetters[i] = c]
    ELSE c

Lower(s) == [i \in DOMAIN s |-> LowerChar(s[i])]

RECURSIVE LStrip(_)
LStrip(s) ==
    IF s # <<>> /\ Head(s) \in Whitespace THEN LStrip(Tail(s)) ELSE s

RECURSIVE RStrip(_)
RStrip(s) ==
    IF s # <<>> /\ s[Len(s)] \in Whitespace
    THEN RStrip(SubSeq(s, 1, Len(s) - 1))
    ELSE s

Strip(s) == RStrip(LStrip(s))

(***************************************************************************)
(* constants.py: the Era enumeration.  The repository holds two versions   *)
(* of the module: the package's (src/discourses/constants.py, three        *)
(* members) and a second one at the top level (constants.py, four          *)
(* members).                                                               *)
(***************************************************************************)
T_primitive == <<"p","r","i","m","i","t","i","v","e">>
T_ramp == <<"r","a","m","p">>
T_meme == <<"m","e","m","e">>
T_present == <<"p","r","e","s","e","n","t">>

\* The members of Era in the package's module, in definition order.
EraMembers == <<"PRIMITIVE", "MEME", "PRESENT">>
\* The members of Era in the top-level module.
EraMembersTop == <<"PRIMITIVE", "RAMP", "MEME", "PRESENT">>

\* Era.<member>.value
EraValue(m) ==
    CASE m = "PRIMITIVE" -> T_primitive
      [] m = "RAMP" -> T_ramp
      [] m = "MEME" -> T_meme
      [] m = "PRESENT" -> T_present

\* Era.__str__
EraStr(m) == EraValue(m)

Returned(v) == [kind |-> "return", value |-> v]
Raised(k, m) == [kind |-> k, message |-> m]

\* Era.from_string of the package's module.
from_string(value) ==
    LET v == Strip(Lower(value)) IN
    IF v = T_primitive THEN Returned(EraMember("PRIMITIVE"))
    ELSE IF v = T_meme THEN Returned(EraMember("MEME"))
    ELSE IF v = T_present THEN Returned(EraMember("PRESENT"))
    ELSE Raised("ValueError",
                Fmt("Unknown era: {}. Valid eras: primitive, meme, present", <<v>>))

\* Era.from_string of the top-level module.
from_string_top(value) ==
    LET v == Strip(Lower(value)) IN
    IF v = T_primitive THEN Returned(EraMember("PRIMITIVE"))
    ELSE IF v = T_ramp THEN Returned(EraMember("RAMP"))
    ELSE IF v = T_meme THEN Returned(EraMember("MEME"))
    ELSE IF v = T_present THEN Returned(EraMember("PRESENT"))
    ELSE Raised("ValueError",
                Fmt("Unknown era: {}. Valid eras: primitive, ramp, meme, present", <<v>>))

(***************************************************************************)
(* exceptions.py: the exception hierarchy.  An exception is a record of    *)
(* its class (kind) and its attributes.                                    *)
(***************************************************************************)
\* DiscoursesError.__init__
DiscoursesError(kind, message, status_code, resp) ==
    [kind |-> kind,
     message |-> message,
     status_code |-> status_code,
     response |-> IF Truthy(resp) THEN resp ELSE Dict(EmptyMap)]

\* APIError has no __init__ of its own: status_code and response default to None.
APIError(message, status_code, resp) ==
    DiscoursesError("APIError", message, status_code, resp)

\* AuthenticationError.__init__
AuthenticationError(message, status_code, resp) ==
    DiscoursesError("AuthenticationError", message, status_code, resp)

\* RateLimitError.__init__
RateLimitError(message, status_code, resp, retry_after) ==
    [kind |-> "RateLimitError",
     message |-> message,
     status_code |-> status_code,
     response |-> IF Truthy(resp) THEN resp ELSE Dict(EmptyMap),
     retry_after |-> retry_after]

\* ValidationError whose status_code parameter defaults to None.
ValidationErrorStatus_none == PyNone

\* The default of ValidationError's status_code parameter.
ValidationErrorStatus == IntV(400)

\* ValidationError.__init__
ValidationError(message, status_code, resp) ==
    DiscoursesError("ValidationError", message, status_code, resp)

\* ValidationError(message): the call the client makes on a local input error.
LocalValidationError(message) ==
    ValidationError(message, ValidationErrorStatus, PyNone)

\* An exception of Python itself, raised by an operation on a value.
PyError(kind) == [kind |-> kind]

(***************************************************************************)
(* int(s) and float(x), int(x) of Python.                                  *)
(***************************************************************************)
Digits == <<"0","1","2","3","4","5","6","7","8","9">>
IsDigit(c) == \E i \in DOMAIN Digits : Digits[i] = c
DigitVal(c) == (CHOOSE i \in DOMAIN Digits : Digits[i] = c) - 1

RECURSIVE DigitsVal(_)
DigitsVal(s) ==
    IF s = <<>> THEN 0
    ELSE 10 * DigitsVal(SubSeq(s, 1, Len(s) - 1)) + DigitVal(s[Len(s)])

\* Whether int(s) accepts the string: surrounding whitespace, an optional sign,
\* then digits, with single underscores allowed between digits.
RECURSIVE DigitRun(_)
DigitRun(s) ==
    \/ Len(s) = 1 /\ IsDigit(s[1])
    \/ Len(s) >= 2 /\ IsDigit(s[1]) /\ IsDigit(s[2]) /\ DigitRun(Tail(s))
    \/ Len(s) >= 3 /\ IsDigit(s[1]) /\ s[2] = "_" /\ IsDigit(s[3])
                   /\ DigitRun(Tail(Tail(s)))

Unsigned(s) == IF s # <<>> /\ s[1] \in {"+", "-"} THEN Tail(s) ELSE s

IntParses(s) == DigitRun(Unsigned(Strip(s)))

IntOfStr(s) ==
    LET t == Strip(s)
        d == SelectSeq(Unsigned(t), IsDigit)
    IN  IF t[1] = "-" THEN 0 - DigitsVal(d) ELSE DigitsVal(d)

\* float(x): a record of the result or of the exception.  The strs of the
\* model's payloads are not numerals, so float and int reject them.
PyFloat(x) ==
    CASE x.tag = "int" -> Returned(FloatV(100 * x.val))
      [] x.tag = "float" -> Returned(x)
      [] x.tag = "str" -> Raised("ValueError", Lit("could not convert string to float"))
      [] OTHER -> Raised("TypeError", Lit("float() argument must be a string or a number"))

\* int(x): a float is truncated toward zero.
PyInt(x) ==
    CASE x.tag = "int" -> Returned(x)
      [] x.tag = "float" ->
            Returned(IntV(IF x.val >= 0 THEN x.val \div 100 ELSE 0 - ((0 - x.val) \div 100)))
      [] x.tag = "str" -> Raised("ValueError", Lit("invalid literal for int()"))
      [] OTHER -> Raised("TypeError", Lit("int() argument must be a string or a number"))

(***************************************************************************)
(* models.py: the response models.                                         *)
(***************************************************************************)
L_neutral == <<"n","e","u","t","r","a","l">>
L_very_bullish == <<"v","e","r","y","_","b","u","l","l","i","s","h">>
L_bullish == <<"b","u","l","l","i","s","h">>
L_bearish == <<"b","e","a","r","i","s","h">>
L_very_bearish == <<"v","e","r","y","_","b","e","a","r","i","s","h">>

\* value[key] instead of value.get(key, default): an absent key raises KeyError.
TryGet_subscript(r, key, default) ==
    IF r.kind # "return" THEN r
    ELSE IF r.value.tag # "dict" THEN PyError("TypeError")
    ELSE IF key \notin DOMAIN r.value.map THEN PyError("KeyError")
    ELSE Returned(r.value.map[key])

\* value.get(key, default) on a value that may not be a dict.
TryGet(r, key, default) ==
    IF r.kind # "return" THEN r
    ELSE IF r.value.tag # "dict" THEN PyError("AttributeError")
    ELSE Returned(Get(r.value, key, default))

TryFloat(r) == IF r.kind # "return" THEN r ELSE PyFloat(r.value)
TryInt(r) == IF r.kind # "return" THEN r ELSE PyInt(r.value)

\* The first exception of a sequence of evaluations, in evaluation order.
RECURSIVE FirstRaise(_)
FirstRaise(rs) ==
    IF rs = <<>> THEN Returned(PyNone)
    ELSE IF Head(rs).kind # "return" THEN PyError(Head(rs).kind)
    ELSE FirstRaise(Tail(rs))

\* AnalysisResult.from_dict
AnalysisResult_from_dict(data) ==
    LET d == Returned(data)
        classification == TryGet(d, "classification", Dict(EmptyMap))
        scores == TryGet(d, "scores", Dict(EmptyMap))
        analysis == TryGet(d, "analysis", Dict(EmptyMap))
        label == TryGet(classification, "label", Str(L_neutral))
        confidence == TryFloat(TryGet(classification, "confidence", IntV(0)))
        outlook == TryFloat(TryGet(scores, "outlook", IntV(0)))
        bullish == TryFloat(TryGet(scores, "bullish", IntV(0)))
        bearish == TryFloat(TryGet(scores, "bearish", IntV(0)))
        neutral == TryFloat(TryGet(scores, "neutral", IntV(0)))
        confusion == TryFloat(TryGet(scores, "confusion", IntV(0)))
        word_count == TryInt(TryGet(analysis, "word_count", IntV(0)))
        matched_count == TryInt(TryGet(analysis, "matched_count", IntV(0)))
        negation_count == TryInt(TryGet(analysis, "negation_count", IntV(0)))
        steps == <<classification, scores, analysis, label, confidence, outlook,
                   bullish, bearish, neutral, confusion,
                   word_count, matched_count, negation_count>>
    IN  IF FirstRaise(steps).kind # "return" THEN FirstRaise(steps)
        ELSE Returned([cls |-> "AnalysisResult",
                       label |-> label.value,
                       confidence |-> confidence.value,
                       outlook |-> outlook.value,
                       scores |-> [bullish |-> bullish.value,
                                   bearish |-> bearish.value,
                                   neutral |-> neutral.value,
                                   confusion |-> confusion.value],
                       word_count |-> word_count.value,
                       matched_count |-> matched_count.value,
                       negation_count |-> negation_count.value,
                       raw |-> data])

\* CompareResult.from_dict
CompareResult_from_dict(data) ==
    IF data.tag # "dict" THEN PyError("AttributeError")
    ELSE Returned([cls |-> "CompareResult",
                   results |-> Get(data, "results", Dict(EmptyMap)),
                   drift |-> Get(data, "drift", Dict(EmptyMap)),
                   meta |-> Get(data, "meta", Dict(EmptyMap)),
                   raw |-> data])

\* BatchResult.from_dict
BatchResult_from_dict(data) ==
    IF data.tag # "dict" THEN PyError("AttributeError")
    ELSE Returned([cls |-> "BatchResult",
                   results |-> Get(data, "results", Dict(EmptyMap)),
                   meta |-> Get(data, "meta", Dict(EmptyMap)),
                   raw |-> data])

\* A bool.
BoolV(b) == [tag |-> "bool", val |-> b]

W_error == <<"e","r","r","o","r">>

\* The characters of a word the models look for.
Chars(name) ==
    CASE name = "error" -> W_error
      [] name = "bullish" -> L_bullish
      [] name = "bearish" -> L_bearish

\* sub in s, on sequences of characters: sub occurs in s as a substring.
Contains(sub, s) ==
    \E i \in 0..(Len(s) - Len(sub)) : SubSeq(s, i + 1, i + Len(sub)) = sub

\* name in v: a key of a dict, an item of a list, a substring of a str whose
\* characters the model has; a value that is no container raises TypeError.
PyIn(name, v) ==
    CASE v.tag = "dict" -> Returned(BoolV(name \in DOMAIN v.map))
      [] v.tag = "list" ->
            Returned(BoolV(\E i \in DOMAIN v.items : v.items[i] = Str(Chars(name))))
      [] v.tag = "str" /\ "val" \in DOMAIN v ->
            Returned(BoolV(Contains(Chars(name), v.val)))
      [] OTHER -> PyError("TypeError")

\* is_bullish comparing the label with "bullish" instead of searching it.
is_bullish_equal(self) == Returned(BoolV(self.label = Str(L_bullish)))

\* AnalysisResult.is_bullish
is_bullish(self) == PyIn("bullish", self.label)

\* AnalysisResult.is_bearish
is_bearish(self) == PyIn("bearish", self.label)

\* AnalysisResult.is_neutral
is_neutral(self) == Returned(BoolV(self.label = Str(L_neutral)))

\* The entries of results a comprehension of BatchResult keeps: those whose
\* test "error" in v has the wanted value; or the exception of the first step
\* that raises.
FilterResults(self, wanted) ==
    IF self.results.tag # "dict" THEN PyError("AttributeError")
    ELSE LET m == self.results.map
             test == [k \in DOMAIN m |-> PyIn("error", m[k])]
         IN  IF \E k \in DOMAIN m : test[k].kind # "return"
             THEN PyError("TypeError")
             ELSE Returned(Dict([k \in {x \in DOMAIN m : test[x].value.val = wanted}
                                   |-> m[k]]))

\* BatchResult.get_successful
get_successful(self) == FilterResults(self, FALSE)

\* get_failed keeping the entries whose 'error' value is truthy.
get_failed_truthy(self) ==
    LET m == self.results.map IN
    Returned(Dict([k \in {x \in DOMAIN m : Truthy(Get(m[x], "error", PyNone))}
                     |-> m[k]]))

\* BatchResult.get_failed
get_failed(self) == FilterResults(self, TRUE)

\* BatchResult.__len__
BatchResult_len(self) ==
    CASE self.results.tag = "dict" -> Returned(IntV(Cardinality(DOMAIN self.results.map)))
      [] self.results.tag = "list" -> Returned(IntV(Len(self.results.items)))
      [] self.results.tag = "str" /\ "val" \in DOMAIN self.results ->
            Returned(IntV(Len(self.results.val)))
      [] OTHER -> PyError("TypeError")

(***************************************************************************)
(* client.py: the client.                                                  *)
(***************************************************************************)
\* constants.py: DEFAULT_TIMEOUT
DEFAULT_TIMEOUT == 30

\* constants.py: BASE_URL.  A URL is its text without the trailing slashes, and
\* the number of trailing slashes.
BASE_URL == [root |-> "https://discourses.io/api/v1", slashes |-> 0]

\* constants.py: ENDPOINTS, of the package's module.
ENDPOINTS ==
    [analyze |-> "/analyze",
     compare_eras |-> "/analyze/compare-eras",
     batch |-> "/analyze/batch"]

\* base_url.rstrip("/")
RStripSlash(url) == [root |-> url.root, slashes |-> 0]

\* DecodeBody falling back to the body text itself, not to an object holding it.
DecodeBody_text(body) ==
    IF body.json = "invalid" THEN Lit(body.text) ELSE body.data

\* response.json(), and the fallback of _handle_response when it raises ValueError.
DecodeBody(body) ==
    IF body.json = "invalid"
    THEN Dict([k \in {"message"} |->
                 IF body.text # "" THEN Lit(body.text) ELSE Lit("Unknown error")])
    ELSE body.data

\* The retry_after of a 429 response, from its X-RateLimit-Reset header.
RetryAfter(headers) ==
    LET retry_after_header == Get(headers, "X-RateLimit-Reset", PyNone) IN
    IF Truthy(retry_after_header) /\ retry_after_header.tag = "str"
          /\ IntParses(retry_after_header.val)
    THEN IntV(IntOfStr(retry_after_header.val))
    ELSE PyNone

\* Discourses._handle_response
_handle_response(resp) ==
    LET data == DecodeBody(resp.body)
        status == resp.status_code
    IN  IF status = 200 THEN Returned(data)
        ELSE IF data.tag # "dict" THEN PyError("AttributeError")
        ELSE
          LET message == Get(data, "message", Get(data, "error", Lit("Unknown error"))) IN
          IF status = 401
          THEN AuthenticationError(message, IntV(status), data)
          ELSE IF status = 429
          THEN RateLimitError(message, IntV(status), data, RetryAfter(resp.headers))
          ELSE IF status \in {400, 422}
          THEN ValidationError(message, IntV(status), data)
          ELSE APIError(message, IntV(status), data)

\* The classes of requests.exceptions a transport failure is an instance of.
ExcClasses(exc) ==
    CASE exc = "ConnectTimeout" ->
            {"ConnectTimeout", "ConnectionError", "Timeout", "RequestException"}
      [] exc = "ReadTimeout" -> {"ReadTimeout", "Timeout", "RequestException"}
      [] exc = "Timeout" -> {"Timeout", "RequestException"}
      [] exc = "SSLError" -> {"SSLError", "ConnectionError", "RequestException"}
      [] exc = "ConnectionError" -> {"ConnectionError", "RequestException"}
      [] OTHER -> {exc, "RequestException"}

\* _request without the last except clause: other failures propagate as they are.
_request_except_two_clauses(c, exc) ==
    IF "Timeout" \in ExcClasses(exc)
    THEN APIError(Fmt("Request timed out after {}s", <<c.timeout>>), PyNone, PyNone)
    ELSE IF "ConnectionError" \in ExcClasses(exc)
    THEN APIError(Lit("Failed to connect to API"), PyNone, PyNone)
    ELSE PyError(exc)

\* Discourses._request: the except clauses around session.request.
_request_except(c, exc) ==
    IF "Timeout" \in ExcClasses(exc)
    THEN APIError(Fmt("Request timed out after {}s", <<c.timeout>>), PyNone, PyNone)
    ELSE IF "ConnectionError" \in ExcClasses(exc)
    THEN APIError(Lit("Failed to connect to API"), PyNone, PyNone)
    ELSE APIError(Fmt("Request failed: {}", <<exc>>), PyNone, PyNone)

\* Discourses._request: the request handed to session.request.
_request(c, method, endpoint, data) ==
    [method |-> method,
     url |-> [base |-> c.base_url, path |-> endpoint],
     json |-> data,
     timeout |-> c.timeout,
     headers |-> c.headers]

Raise(error) == [kind |-> "raise", error |-> error]
Send(req) == [kind |-> "send", req |-> req]

\* EraToken taking the member's name instead of its value.
EraToken_name(e) ==
    IF e.tag = "Era"
    THEN Str([i \in DOMAIN EraValue(e.name) |-> UpperChar(EraValue(e.name)[i])])
    ELSE e

\* str(e) if isinstance(e, Era) else e
EraToken(e) == IF e.tag = "Era" THEN Str(EraStr(e.name)) ELSE e

\* IsBlank without the strip: only the empty text is blank.
IsBlank_no_strip(text) == ~Truthy(text)

\* not text or not text.strip()
IsBlank(text) == ~Truthy(text) \/ ~Truthy(Str(Strip(text.val)))

\* Discourses.analyze, up to the call of session.request.
analyze(c, text, era) ==
    IF IsBlank(text)
    THEN Raise(LocalValidationError(Lit("text cannot be empty")))
    ELSE
      LET request_data ==
            IF Truthy(era)
            THEN Dict([k \in {"text", "era"} |->
                         IF k = "text" THEN text ELSE EraToken(era)])
            ELSE Dict([k \in {"text"} |-> text])
      IN  Send(_request(c, "POST", ENDPOINTS.analyze, request_data))

\* compare_eras testing `eras is not None` instead of the truth value of eras.
compare_eras_not_none(c, text, eras) ==
    IF IsBlank(text)
    THEN Raise(LocalValidationError(Lit("text cannot be empty")))
    ELSE
      LET request_data ==
            IF eras # PyNone
            THEN Dict([k \in {"text", "eras"} |->
                         IF k = "text" THEN text
                         ELSE List([i \in DOMAIN eras.items |-> EraToken(eras.items[i])])])
            ELSE Dict([k \in {"text"} |-> text])
      IN  Send(_request(c, "POST", ENDPOINTS.compare_eras, request_data))

\* Discourses.compare_eras, up to the call of session.request.
compare_eras(c, text, eras) ==
    IF IsBlank(text)
    THEN Raise(LocalValidationError(Lit("text cannot be empty")))
    ELSE
      LET request_data ==
            IF Truthy(eras)
            THEN Dict([k \in {"text", "eras"} |->
                         IF k = "text" THEN text
                         ELSE List([i \in DOMAIN eras.items |-> EraToken(eras.items[i])])])
            ELSE Dict([k \in {"text"} |-> text])
      IN  Send(_request(c, "POST", ENDPOINTS.compare_eras, request_data))

\* BatchItemError without the check of the 'text' key.
RECURSIVE BatchItemError_id_only(_, _)
BatchItemError_id_only(items, i) ==
    IF i >= Len(items) THEN PyNone
    ELSE IF items[i + 1].tag # "dict"
    THEN LocalValidationError(
             Fmt("Item {} must be a dict with 'id' and 'text' keys", <<i>>))
    ELSE IF "id" \notin DOMAIN items[i + 1].map
    THEN LocalValidationError(Fmt("Item {} must have 'id' and 'text' keys", <<i>>))
    ELSE BatchItemError_id_only(items, i + 1)

\* The loop of Discourses.batch over enumerate(texts), from index i (0-based):
\* the exception of the first item that fails a check, or None.
RECURSIVE BatchItemError(_, _)
BatchItemError(items, i) ==
    IF i >= Len(items) THEN PyNone
    ELSE IF items[i + 1].tag # "dict"
    THEN LocalValidationError(
             Fmt("Item {} must be a dict with 'id' and 'text' keys", <<i>>))
    ELSE IF "id" \notin DOMAIN items[i + 1].map \/ "text" \notin DOMAIN items[i + 1].map
    THEN LocalValidationError(Fmt("Item {} must have 'id' and 'text' keys", <<i>>))
    ELSE BatchItemError(items, i + 1)

\* The default of batch's era parameter.
BatchDefaultEra == EraMember("PRESENT")

\* batch without the check that texts is not empty.
batch_no_empty_check(c, texts, era) ==
    IF texts.tag = "list" /\ BatchItemError(texts.items, 0) # PyNone
    THEN Raise(BatchItemError(texts.items, 0))
    ELSE Send(_request(c, "POST", ENDPOINTS.batch,
                       Dict([k \in {"texts", "era"} |->
                               IF k = "texts" THEN texts ELSE EraToken(era)])))

\* Discourses.batch, up to the call of session.request.
batch(c, texts, era) ==
    IF ~Truthy(texts)
    THEN Raise(LocalValidationError(Lit("texts list cannot be empty")))
    ELSE IF BatchItemError(texts.items, 0) # PyNone
    THEN Raise(BatchItemError(texts.items, 0))
    ELSE
      LET request_data ==
            Dict([k \in {"texts", "era"} |->
                    IF k = "texts" THEN texts ELSE EraToken(era)])
      IN  Send(_request(c, "POST", ENDPOINTS.batch, request_data))

\* The model object an operation builds from the payload _request returns.
FromDict(op, data) ==
    CASE op = "analyze" -> AnalysisResult_from_dict(data)
      [] op = "compare_eras" -> CompareResult_from_dict(data)
      [] op = "batch" -> BatchResult_from_dict(data)

\* The rest of an operation once session.request has returned a response.
Finish(op, resp) ==
    LET r == _handle_response(resp) IN
    IF r.kind = "return" THEN FromDict(op, r.value) ELSE r

\* Discourses.__init__ rejecting only a missing api_key, not an empty one.
Discourses_none_only(api_key, base_url, timeout) ==
    IF api_key = PyNone
    THEN Raised("ValueError", Lit("api_key is required"))
    ELSE Returned(
           [api_key |-> api_key,
            base_url |-> RStripSlash(base_url),
            timeout |-> timeout,
            headers |-> Dict([h \in {"Authorization", "Content-Type", "User-Agent"} |->
               CASE h = "Authorization" -> Fmt("Bearer {}", <<api_key>>)
                 [] h = "Content-Type" -> Lit("application/json")
                 [] h = "User-Agent" -> Lit("discourses-python/1.0.0")])])

\* Discourses.__init__: the client object, or the exception.
Discourses(api_key, base_url, timeout) ==
    IF ~Truthy(api_key)
    THEN Raised("ValueError", Lit("api_key is required"))
    ELSE Returned(
           [api_key |-> api_key,
            base_url |-> RStripSlash(base_url),
            timeout |-> timeout,
            headers |-> Dict([h \in {"Authorization", "Content-Type", "User-Agent"} |->
               CASE h = "Authorization" -> Fmt("Bearer {}", <<api_key>>)
                 [] h = "Content-Type" -> Lit("application/json")
                 [] h = "User-Agent" -> Lit("discourses-python/1.0.0")])])

(***************************************************************************)
(* The state machine.  client is the constructed client; call is the       *)
(* invocation in progress or last completed, wire the request it handed to  *)
(* session.request, netCalls the number of times it called session.request, *)
(* response what came back, outcome what the invocation returned or raised, *)
(* view what the caller last read from the model object it got back,        *)
(* previous how the invocation before this one ended, when the caller kept  *)
(* note of it.                                                             *)
(* An operation blocks in session.request: pc is "sent" there.  Between     *)
(* invocations pc is "idle" and only the client is left.                    *)
(***************************************************************************)
NoClient == [tag |-> "no client"]
NoCall == [op |-> "none"]
NoRequest == [method |-> "none"]
NoResponse == [status_code |-> 0]
NoOutcome == [kind |-> "none"]
NoView == [method |-> "none"]

Init ==
    /\ client = NoClient
    /\ pc = "idle"
    /\ call = NoCall
    /\ wire = NoRequest
    /\ netCalls = 0
    /\ response = NoResponse
    /\ outcome = NoOutcome
    /\ view = NoView
    /\ previous = "none"

\* Discourses(api_key, base_url, timeout)
Construct(api_key, base_url, timeout) ==
    /\ client = NoClient
    /\ pc = "idle"
    /\ LET r == Discourses(api_key, ArgOr(base_url, BASE_URL),
                           ArgOr(timeout, IntV(DEFAULT_TIMEOUT)))
       IN  /\ client' = IF r.kind = "return" THEN r.value ELSE client
           /\ outcome' = IF r.kind = "return" THEN Returned(PyNone) ELSE r
    /\ call' = [op |-> "Discourses", api_key |-> api_key,
                base_url |-> base_url, timeout |-> timeout]
    /\ pc' = "done"
    /\ UNCHANGED <<wire, netCalls, response, view, previous>>

\* An operation starts: it raises on a local input error, or builds its request
\* and calls session.request.
Begin(c, step) ==
    /\ client # NoClient
    /\ pc = "idle"
    /\ call' = c
    /\ IF step.kind = "raise"
       THEN /\ pc' = "done"
            /\ outcome' = step.error
            /\ UNCHANGED <<wire, netCalls>>
       ELSE /\ pc' = "sent"
            /\ wire' = step.req
            /\ netCalls' = netCalls + 1
            /\ UNCHANGED outcome
    /\ UNCHANGED <<client, response, view, previous>>

\* client.analyze(text, era)
Analyze(text, era) ==
    Begin([op |-> "analyze", text |-> text, era |-> era],
          analyze(client, text, ArgOr(era, PyNone)))

\* client.compare_eras(text, eras)
CompareEras(text, eras) ==
    Begin([op |-> "compare_eras", text |-> text, eras |-> eras],
          compare_eras(client, text, ArgOr(eras, PyNone)))

\* client.batch(texts, era)
Batch(texts, era) ==
    Begin([op |-> "batch", texts |-> texts, era |-> era],
          batch(client, texts, ArgOr(era, BatchDefaultEra)))

\* Respond with a client that forgets its credential on a 401 response.
Respond_forget_key(resp) ==
    /\ pc = "sent"
    /\ response' = resp
    /\ outcome' = Finish(call.op, resp)
    /\ pc' = "done"
    /\ client' = IF resp.status_code = 401
                  THEN [client EXCEPT !.api_key = PyNone, !.headers = Dict(EmptyMap)]
                  ELSE client
    /\ UNCHANGED <<call, wire, netCalls, view, previous>>

\* session.request returns a response: _handle_response, then from_dict.
Respond(resp) ==
    /\ pc = "sent"
    /\ response' = resp
    /\ outcome' = Finish(call.op, resp)
    /\ pc' = "done"
    /\ UNCHANGED <<client, call, wire, netCalls, view, previous>>

\* session.request raises an exception of requests.exceptions.
TransportFail(exc) ==
    /\ pc = "sent"
    /\ response' = [status_code |-> 0, failure |-> exc]
    /\ outcome' = _request_except(client, exc)
    /\ pc' = "done"
    /\ UNCHANGED <<client, call, wire, netCalls, view, previous>>

\* Era.from_string(value), of the package's module or of the top-level one.
FromString(module, value) ==
    /\ pc = "idle"
    /\ call' = [op |-> "from_string", module |-> module, value |-> Str(value)]
    /\ outcome' = IF module = "package" THEN from_string(value)
                  ELSE from_string_top(value)
    /\ pc' = "done"
    /\ UNCHANGED <<client, wire, netCalls, response, view, previous>>

\* The caller reads a method or property of the model object it got back.
Access(op, method, result) ==
    /\ pc = "done"
    /\ call.op = op
    /\ outcome.kind = "return"
    /\ view' = [method |-> method, value |-> result]
    /\ UNCHANGED <<client, pc, call, wire, netCalls, response, outcome, previous>>

\* result.is_bullish, result.is_bearish, result.is_neutral
IsBullish == Access("analyze", "is_bullish", is_bullish(outcome.value))
IsBearish == Access("analyze", "is_bearish", is_bearish(outcome.value))
IsNeutral == Access("analyze", "is_neutral", is_neutral(outcome.value))

\* result.get_successful(), result.get_failed(), len(result)
GetSuccessful == Access("batch", "get_successful", get_successful(outcome.value))
GetFailed == Access("batch", "get_failed", get_failed(outcome.value))
BatchLen == Access("batch", "__len__", BatchResult_len(outcome.value))

\* The invocation is over: its outcome goes to the caller and its frame is gone.
Return ==
    /\ pc = "done"
    /\ pc' = "idle"
    /\ call' = NoCall
    /\ wire' = NoRequest
    /\ netCalls' = 0
    /\ response' = NoResponse
    /\ outcome' = NoOutcome
    /\ view' = NoView
    /\ UNCHANGED <<client, previous>>

\* The invocation is over and the caller, who goes on to the next invocation,
\* keeps note of how this one ended: "return" or the class of the exception.
Continue ==
    /\ pc = "done"
    /\ pc' = "idle"
    /\ call' = NoCall
    /\ wire' = NoRequest
    /\ netCalls' = 0
    /\ response' = NoResponse
    /\ outcome' = NoOutcome
    /\ view' = NoView
    /\ previous' = outcome.kind
    /\ UNCHANGED client

(***************************************************************************)
(* The inputs.                                                             *)
(***************************************************************************)
SeqsUpTo(S, n) == UNION {[1..k -> S] : k \in 0..n}
Range(f) == {f[i] : i \in DOMAIN f}

T_bogus == <<"b","o","g","u","s">>

ApiKeys == {PyNone, Lit(""), Lit("sk-1")}
BaseUrls == {Omitted, [root |-> "http://localhost:8000", slashes |-> 2]}
Timeouts == {Omitted, IntV(5)}

TextChars == {" ", "a"}
Texts == {PyNone} \cup {Str(s) : s \in SeqsUpTo(TextChars, MaxTextLen)}

AnalyzeEras ==
    {Omitted, PyNone, Str(<<>>), Str(T_meme), Str(T_ramp), Str(T_bogus)}
      \cup {EraMember(m) : m \in Range(EraMembers)}

EraItems == {EraMember("MEME"), Str(T_primitive), Str(T_bogus)}
ErasArgs == {Omitted, PyNone} \cup {List(s) : s \in SeqsUpTo(EraItems, MaxEras)}

\* An item of texts: a dict with some of the keys, or a value that is no dict.
ItemOf(keys) ==
    Dict([k \in keys |-> IF k = "text" THEN Str(<<"a">>) ELSE Lit("1")])
BatchItems == {Other} \cup {ItemOf(keys) : keys \in SUBSET {"id", "text"}}
                      \cup {ItemOf({"id", "text", "source"})}
BatchTexts == {PyNone} \cup {List(s) : s \in SeqsUpTo(BatchItems, MaxBatch)}
BatchEras == {Omitted, PyNone, EraMember("MEME"), Str(T_meme), Str(T_bogus)}

Statuses == {200, 201, 204, 400, 401, 403, 404, 422, 429, 500}

\* The payloads of the error responses: JSON objects with some of the fields.
ErrorObjects ==
    {Dict([k \in keys |-> IF k = "message" THEN Lit("server message")
                           ELSE Lit("server error")])
       : keys \in SUBSET {"message", "error"}}

\* A payload of a successful analysis, comparison or batch.
AnalysisPayload ==
    Dict([k \in {"classification", "scores", "analysis"} |->
       CASE k = "classification" ->
              Dict([f \in {"label", "confidence"} |->
                      IF f = "label" THEN Str(L_very_bullish) ELSE FloatV(88)])
         [] k = "scores" ->
              Dict([f \in {"outlook", "bullish"} |->
                      IF f = "outlook" THEN FloatV(93) ELSE IntV(1)])
         [] k = "analysis" -> Dict([f \in {"word_count"} |-> IntV(5)])])
ResultsPayload ==
    Dict([k \in {"results", "meta"} |->
       IF k = "results"
       THEN Dict([id \in {"1", "2"} |->
                    IF id = "1" THEN Dict([f \in {"scores"} |-> Dict(EmptyMap)])
                    ELSE Dict([f \in {"error"} |-> Lit("too long")])])
       ELSE Dict([f \in {"texts_failed"} |-> IntV(1)])])

JsonBody(data) == [json |-> IF data.tag = "dict" THEN "object" ELSE "other",
                   data |-> data, text |-> ""]
TextBody(text) == [json |-> "invalid", data |-> PyNone, text |-> text]

\* Bodies: JSON objects, JSON values that are no objects, and text that is no JSON.
Bodies ==
    {JsonBody(d) : d \in ErrorObjects \cup {AnalysisPayload, ResultsPayload}}
      \cup {JsonBody(List(<<>>)), JsonBody(PyNone), JsonBody(Lit("down"))}
      \cup {TextBody(""), TextBody("Bad Gateway")}

HdrChars == {"6", "0", "a", " ", "-"}
Headers ==
    {Dict(EmptyMap)} \cup
    {Dict([h \in {"X-RateLimit-Reset"} |-> Str(v)]) : v \in SeqsUpTo(HdrChars, MaxHdrLen)}

Responses ==
    {[status_code |-> s, body |-> b, headers |-> h]
       : s \in Statuses, b \in Bodies, h \in Headers}

\* A few responses: every status, with four of the bodies and no header.
FewResponses ==
    {r \in Responses :
       /\ r.body \in {JsonBody(Dict(EmptyMap)), JsonBody(AnalysisPayload),
                      JsonBody(List(<<>>)), TextBody("Bad Gateway")}
       /\ r.headers = Dict(EmptyMap)}

\* The entries of a results mapping: JSON objects with or without an 'error'
\* field, whose value may be null.
ResultEntries ==
    {Dict([f \in keys |-> IF f = "error" THEN e ELSE Dict(EmptyMap)])
       : keys \in SUBSET {"error", "scores"}, e \in {Lit("too long"), PyNone}}
ResultIds == <<"1", "2", "3", "4">>

\* The payloads of a batch: results mappings of up to MaxResults entries.
BatchPayloads ==
    {Dict(EmptyMap)} \cup
    UNION {{Dict([k \in {"results", "meta"} |->
                    IF k = "results" THEN Dict(m) ELSE Dict(EmptyMap)])
              : m \in [{ResultIds[i] : i \in I} -> ResultEntries]}
             : I \in SUBSET (1..MaxResults)}

\* The labels of the API's classification.
Labels == {L_very_bullish, L_bullish, L_neutral, L_bearish, L_very_bearish}

\* The value a payload of the model gives a field that is present.
FieldValue(f) ==
    CASE f = "confidence" -> FloatV(88)
      [] f = "outlook" -> FloatV(93)
      [] f = "bullish" -> IntV(1)
      [] f = "bearish" -> FloatV(5)
      [] f = "neutral" -> FloatV(2)
      [] f = "confusion" -> FloatV(1)
      [] f = "word_count" -> IntV(5)
      [] f = "matched_count" -> IntV(3)
      [] f = "negation_count" -> IntV(1)

ClassificationFields == {"label", "confidence"}
ScoresFields == {"outlook", "bullish", "bearish", "neutral", "confusion"}
AnalysisFields == {"word_count", "matched_count", "negation_count"}

\* The objects of a payload with some of their members.
ClassificationObjects ==
    {Dict([f \in keys |-> IF f = "label" THEN Str(l) ELSE FieldValue(f)])
       : keys \in SUBSET ClassificationFields, l \in Labels}
ScoresObjects == {Dict([f \in keys |-> FieldValue(f)]) : keys \in SUBSET ScoresFields}
AnalysisObjects == {Dict([f \in keys |-> FieldValue(f)]) : keys \in SUBSET AnalysisFields}

\* The payloads of an analysis: JSON objects with some of the expected fields.
AnalysisPayloads ==
    UNION {{Dict([k \in keys |->
               CASE k = "classification" -> c
                 [] k = "scores" -> sc
                 [] k = "analysis" -> a])
              : c \in ClassificationObjects, sc \in ScoresObjects, a \in AnalysisObjects}
             : keys \in SUBSET {"classification", "scores", "analysis"}}

\* The 200 responses with the payloads of an analysis or of a batch.
ModelResponses ==
    {[status_code |-> 200, body |-> JsonBody(d), headers |-> Dict(EmptyMap)]
       : d \in AnalysisPayloads \cup BatchPayloads}

TransportFailures ==
    {"Timeout", "ConnectTimeout", "ReadTimeout", "ConnectionError", "SSLError",
     "TooManyRedirects", "InvalidURL"}

\* Era strings: a word, some of its letters upper-cased, whitespace around it.
EraWords ==
    {T_primitive, T_ramp, T_meme, T_present, T_bogus, <<>>,
     <<"m","e","m","e","s">>, <<"r","a","m">>, <<"m","e"," ","m","e">>}
UpperSets(w) ==
    {U \in SUBSET DOMAIN w : Cardinality(U) <= MaxUpper \/ U = DOMAIN w}
Cased(w, U) == [i \in DOMAIN w |-> IF i \in U THEN UpperChar(w[i]) ELSE w[i]]
Pads == SeqsUpTo({" ", "\t"}, MaxPad)
EraStrings ==
    UNION {{l \o Cased(w, U) \o r : l \in Pads, r \in Pads, U \in UpperSets(w)}
             : w \in EraWords}

(***************************************************************************)
(* The specifications.  Spec draws the arguments of the operations widely  *)
(* and the responses from FewResponses; SpecResponse draws the responses   *)
(* widely and keeps one invocation per operation; SpecEra applies          *)
(* Era.from_string to the era strings; SpecModels draws the payloads of the *)
(* 200 responses widely and reads the model objects; SpecSequence keeps    *)
(* note of how the invocation before the current one ended.                *)
(***************************************************************************)
Next ==
    \/ \E k \in ApiKeys, u \in BaseUrls, t \in Timeouts : Construct(k, u, t)
    \/ \E text \in Texts, era \in AnalyzeEras : Analyze(text, era)
    \/ \E text \in Texts, eras \in ErasArgs : CompareEras(text, eras)
    \/ \E texts \in BatchTexts, era \in BatchEras : Batch(texts, era)
    \/ \E r \in FewResponses : Respond(r)
    \/ \E e \in TransportFailures : TransportFail(e)
    \/ Return

Spec == Init /\ [][Next]_vars

NextResponse ==
    \/ Construct(Lit("sk-1"), Omitted, Omitted)
    \/ Analyze(Str(<<"a">>), Omitted)
    \/ CompareEras(Str(<<"a">>), Omitted)
    \/ Batch(List(<<ItemOf({"id", "text"})>>), Omitted)
    \/ \E r \in Responses : Respond(r)
    \/ \E e \in TransportFailures : TransportFail(e)
    \/ Return

SpecResponse == Init /\ [][NextResponse]_vars

NextEra ==
    \/ \E module \in {"package", "top"}, value \in EraStrings :
          FromString(module, value)
    \/ Return

SpecEra == Init /\ [][NextEra]_vars

NextModels ==
    \/ Construct(Lit("sk-1"), Omitted, Omitted)
    \/ Analyze(Str(<<"a">>), Omitted)
    \/ Batch(List(<<ItemOf({"id", "text"})>>), Omitted)
    \/ \E r \in ModelResponses : Respond(r)
    \/ IsBullish
    \/ IsBearish
    \/ IsNeutral
    \/ GetSuccessful
    \/ GetFailed
    \/ BatchLen
    \/ Return

SpecModels == Init /\ [][NextModels]_vars

NextSequence ==
    \/ \E k \in ApiKeys, u \in BaseUrls, t \in Timeouts : Construct(k, u, t)
    \/ \E text \in {Str(<<>>), Str(<<"a">>)} : Analyze(text, EraMember("MEME"))
    \/ \E text \in {Str(<<>>), Str(<<"a">>)} : CompareEras(text, Omitted)
    \/ \E texts \in {List(<<>>), List(<<ItemOf({"id", "text"})>>)} : Batch(texts, Omitted)
    \/ \E r \in FewResponses : Respond(r)
    \/ \E e \in TransportFailures : TransportFail(e)
    \/ Continue

SpecSequence == Init /\ [][NextSequence]_vars

(***************************************************************************)
(* The properties.                                                         *)
(***************************************************************************)
Operations == {"analyze", "compare_eras", "batch"}

\* An HTTP response came back to the invocation and the invocation is over.
Answered == pc = "done" /\ "body" \in DOMAIN response

\* The invocation ended in a local input error: it raised before any request.
LocallyRejected ==
    pc = "done" /\ call.op \in Operations /\ response = NoResponse

\* A text that is empty or consists only of whitespace.
BlankText(text) ==
    text.tag = "str" /\ \A i \in DOMAIN text.val : text.val[i] \in Whitespace

\* An item of texts that is a dict with both the 'id' and the 'text' key.
GoodItem(item) == item.tag = "dict" /\ {"id", "text"} \subseteq DOMAIN item.map

\* The 1-based positions of the items of texts that are not good.
Offending(items) == {i \in DOMAIN items : ~GoodItem(items[i])}
Min(S) == CHOOSE m \in S : \A n \in S : m <= n

\* The arguments of the invocation pass the local input validation.
ValidInput(c) ==
    CASE c.op \in {"analyze", "compare_eras"} ->
            c.text.tag = "str" /\ ~BlankText(c.text)
      [] c.op = "batch" ->
            /\ c.texts.tag = "list"
            /\ c.texts.items # <<>>
            /\ Offending(c.texts.items) = {}
      [] OTHER -> FALSE

\* The error kind the status code of a response stands for.
KindOfStatus(s) ==
    CASE s = 401 -> "AuthenticationError"
      [] s = 429 -> "RateLimitError"
      [] s \in {400, 422} -> "ValidationError"
      [] OTHER -> "APIError"

\* C1: response interpretation is total and determined by the status code alone:
\* whatever the body (a JSON object, another JSON value, text that is no JSON),
\* status 200 returns the parsed payload, 401 raises AuthenticationError, 429
\* RateLimitError, 400 and 422 ValidationError, every other status APIError, and
\* no other kind of failure escapes.
C1_InterpretationTotal ==
    Answered =>
        IF response.status_code = 200
        THEN outcome.kind = "return" /\ outcome.value.raw = DecodeBody(response.body)
        ELSE outcome.kind = KindOfStatus(response.status_code)

\* C2: analyze and compare_eras called with a text that is empty or only
\* whitespace raise a validation error and make no network call, whatever the
\* era or eras argument.
C2_BlankTextRejected ==
    (pc \in {"sent", "done"} /\ call.op \in {"analyze", "compare_eras"}
        /\ BlankText(call.text))
    => /\ pc = "done"
       /\ outcome.kind = "ValidationError"
       /\ netCalls = 0
       /\ wire = NoRequest
       /\ response = NoResponse

C2_Witness ==
    /\ pc = "done"
    /\ call.op = "compare_eras"
    /\ call.text = Str(<<" ", " ">>)
    /\ call.eras = List(<<EraMember("MEME"), Str(T_bogus)>>)
    /\ outcome.kind = "ValidationError"
    /\ netCalls = 0

\* C3: batch rejects an empty texts list; a non-empty list with an item that is no
\* dict or lacks the 'id' or the 'text' key raises a validation error whose message
\* names the (0-based) index of the first such item; neither makes a network call;
\* and a list whose every item has both keys is never rejected locally.
C3_BatchValidation ==
    (pc \in {"sent", "done"} /\ call.op = "batch" /\ call.texts.tag = "list")
    => LET items == call.texts.items IN
       /\ items = <<>> =>
            /\ LocallyRejected
            /\ outcome.kind = "ValidationError"
            /\ netCalls = 0
       /\ Offending(items) # {} =>
            /\ LocallyRejected
            /\ outcome.kind = "ValidationError"
            /\ netCalls = 0
            /\ outcome.message.args = <<Min(Offending(items)) - 1>>
       /\ (items # <<>> /\ Offending(items) = {}) =>
            /\ ~LocallyRejected
            /\ netCalls = 1
            /\ wire.json.map["texts"] = call.texts

C3_Witness ==
    /\ LocallyRejected
    /\ call.op = "batch"
    /\ call.texts = List(<<ItemOf({"id", "text"}), ItemOf({"id"})>>)
    /\ outcome.kind = "ValidationError"
    /\ outcome.message.args = <<1>>

\* C4: an invocation of analyze, compare_eras or batch that passes the local input
\* validation performs exactly one network request, whatever the outcome (success,
\* an error status, a timeout, a connection failure); one that fails the local
\* validation performs none; none performs two or more.
C4_OneRoundTrip ==
    /\ netCalls <= 1
    /\ (pc \in {"sent", "done"} /\ call.op \in Operations) =>
          netCalls = IF ValidInput(call) THEN 1 ELSE 0
    /\ (pc = "done" /\ call.op \in Operations) =>
          (response # NoResponse <=> netCalls = 1)

C4_Witness ==
    /\ pc = "done"
    /\ call.op = "analyze"
    /\ "failure" \in DOMAIN response
    /\ response.failure = "ReadTimeout"
    /\ netCalls = 1

\* The value of the X-RateLimit-Reset header of the response, or None.
ResetHeader == Get(response.headers, "X-RateLimit-Reset", PyNone)

\* The header value is an integer string: digits after an optional sign, with
\* whitespace allowed around them.
IsIntegerString(v) ==
    LET t == Unsigned(Strip(v)) IN
    t # <<>> /\ \A i \in DOMAIN t : IsDigit(t[i])

\* The integer an integer string denotes.
IntegerOf(v) ==
    LET t == Strip(v)
        n == DigitsVal(Unsigned(t))
    IN  IF t[1] = "-" THEN 0 - n ELSE n

\* C5: a 429 response whose X-RateLimit-Reset header is an integer string n raises
\* RateLimitError with retry_after = n; one whose header is missing, empty or no
\* integer still raises RateLimitError, with retry_after None.
C5_RetryAfter ==
    (Answered /\ response.status_code = 429)
    => /\ outcome.kind = "RateLimitError"
       /\ outcome.retry_after =
            IF ResetHeader # PyNone /\ IsIntegerString(ResetHeader.val)
            THEN IntV(IntegerOf(ResetHeader.val))
            ELSE PyNone

\* C6: every error raised for a non-200 response carries the status code of the
\* response, the decoded payload, and the server's message: the payload's
\* 'message' field if present, otherwise its 'error' field, otherwise
\* 'Unknown error'.
C6_ErrorCarriesResponse ==
    (Answered /\ response.status_code # 200)
    => LET payload == DecodeBody(response.body) IN
       /\ outcome.kind # "return"
       /\ "status_code" \in DOMAIN outcome
       /\ outcome.status_code = IntV(response.status_code)
       /\ outcome.response = payload
       /\ outcome.message =
            IF "message" \in DOMAIN payload.map THEN payload.map["message"]
            ELSE IF "error" \in DOMAIN payload.map THEN payload.map["error"]
            ELSE Lit("Unknown error")

\* The validation failures the server reports: the errors of the responses with
\* status 400 or 422.
ServerValidationErrors ==
    {_handle_response(r) : r \in {x \in FewResponses : x.status_code \in {400, 422}}}

SameKindAndStatus(e, f) ==
    /\ e.kind = f.kind
    /\ "status_code" \in DOMAIN e
    /\ "status_code" \in DOMAIN f
    /\ e.status_code = f.status_code

\* C7: a locally detected input error (an empty text, an empty or malformed batch
\* list) is distinguishable from a validation failure the server reports with
\* status 400 or 422: the two do not carry the same error kind and status code.
C7_LocalErrorDistinct ==
    LocallyRejected =>
        \A e \in ServerValidationErrors : ~SameKindAndStatus(outcome, e)

\* C7, amended: a locally detected input error is a ValidationError with status
\* code 400 and an empty response payload, raised without a network call; it has
\* the error kind and status code of a validation failure the server reports with
\* status 400, and differs in status code from one reported with status 422.
C7_LocalErrorIsValidation400 ==
    LocallyRejected =>
        /\ outcome.kind = "ValidationError"
        /\ outcome.status_code = IntV(400)
        /\ outcome.response = Dict(EmptyMap)
        /\ netCalls = 0
        /\ \A e \in ServerValidationErrors :
              e.kind = "ValidationError" =>
                 (SameKindAndStatus(outcome, e) <=> e.status_code = IntV(400))
        /\ \E e \in ServerValidationErrors : SameKindAndStatus(outcome, e)

C7_Witness ==
    /\ LocallyRejected
    /\ call.op = "analyze"
    /\ call.text = Str(<<>>)
    /\ outcome.status_code = IntV(400)

\* C8: a timeout, a connection failure or any other failure of the transport is
\* raised as APIError with a message and no status code, never as another kind of
\* error nor as the transport's own exception, and the request is not sent again.
C8_TransportFailure ==
    (pc = "done" /\ "failure" \in DOMAIN response)
    => /\ outcome.kind = "APIError"
       /\ outcome.status_code = PyNone
       /\ outcome.message.tag = "str"
       /\ Truthy(outcome.message)
       /\ netCalls = 1

C8_Witness ==
    /\ pc = "done"
    /\ "failure" \in DOMAIN response
    /\ response.failure = "TooManyRedirects"
    /\ outcome.kind = "APIError"
    /\ netCalls = 1

\* The tokens of the Era enumeration (of either version of constants.py).
EraTokens == {Str(EraValue(m)) : m \in Range(EraMembersTop)}

\* analyze's request is on the wire with an 'era' field.
AnalyzeSentEra ==
    /\ pc \in {"sent", "done"}
    /\ call.op = "analyze"
    /\ wire # NoRequest
    /\ "era" \in DOMAIN wire.json.map

\* C9: whenever analyze sends a request with an 'era' field, the field is a token
\* of the Era enumeration: no invalid era goes on the wire.
C9_EraValidated ==
    AnalyzeSentEra => wire.json.map["era"] \in EraTokens

\* C9, amended: whenever analyze sends a request with an 'era' field, the field
\* is the era argument passed through: the token of the member when an Era member
\* is given, the given string itself, not validated, when a string is given; so it
\* is an Era token exactly when the argument is a member or a token already.
C9_EraPassedThrough ==
    AnalyzeSentEra =>
        /\ call.era.tag = "Era" => wire.json.map["era"] = Str(EraValue(call.era.name))
        /\ call.era.tag = "str" => wire.json.map["era"] = call.era
        /\ call.era.tag \in {"Era", "str"}
        /\ wire.json.map["era"] \in EraTokens
              <=> (call.era.tag = "Era" \/ call.era \in EraTokens)

C9_Witness ==
    /\ AnalyzeSentEra
    /\ call.era = Str(T_bogus)
    /\ wire.json.map["era"] = Str(T_bogus)

\* C10: Era.from_string accepts the tokens primitive, ramp, meme and present in
\* any letter case and with any whitespace around them, returning the member whose
\* token is the lower-cased, stripped input, and rejects every other string with
\* an invalid-input error (ValueError).
C10_FromString ==
    (pc = "done" /\ call.op = "from_string")
    => LET v == Strip(Lower(call.value.val)) IN
       IF v \in {T_primitive, T_ramp, T_meme, T_present}
       THEN outcome.kind = "return" /\ EraValue(outcome.value.name) = v
       ELSE outcome.kind = "ValueError"

\* The construction of the client is over.
Constructed == pc = "done" /\ call.op = "Discourses"

\* C11: constructing the client with an empty credential string, or with no
\* credential, always fails (ValueError) and leaves no client, before any network
\* activity; construction with a non-empty credential yields the client and
\* performs no network call either.
C11_ConstructRequiresKey ==
    Constructed =>
        /\ netCalls = 0
        /\ wire = NoRequest
        /\ response = NoResponse
        /\ call.api_key \in {PyNone, Lit("")} =>
              outcome.kind = "ValueError" /\ client = NoClient
        /\ call.api_key \notin {PyNone, Lit("")} =>
              outcome.kind = "return" /\ client # NoClient

C11_Witness ==
    /\ Constructed
    /\ call.api_key = Lit("")
    /\ outcome.kind = "ValueError"
    /\ client = NoClient
    /\ netCalls = 0

\* batch returned a BatchResult and the caller has read it.
BatchRead ==
    /\ pc = "done"
    /\ call.op = "batch"
    /\ outcome.kind = "return"
    /\ view # NoView

\* The ids of the failed entries of a results mapping: those with an 'error' key.
FailedIds(results) == {k \in DOMAIN results : "error" \in DOMAIN results[k].map}

\* C12: for every BatchResult, get_failed returns exactly the entries of results
\* that contain an 'error' key and get_successful exactly those that do not; the
\* two are disjoint, their union is the whole results mapping, so that
\* len(result) = |successful| + |failed|; and reading them performs no network
\* request and leaves the BatchResult as batch returned it.
C12_Partition ==
    BatchRead =>
        LET results == outcome.value.results.map
            failed == get_failed(outcome.value)
            successful == get_successful(outcome.value)
            length == BatchResult_len(outcome.value)
        IN  /\ failed.kind = "return"
            /\ successful.kind = "return"
            /\ length.kind = "return"
            /\ failed.value = Dict([k \in FailedIds(results) |-> results[k]])
            /\ successful.value =
                 Dict([k \in DOMAIN results \ FailedIds(results) |-> results[k]])
            /\ DOMAIN failed.value.map \cap DOMAIN successful.value.map = {}
            /\ DOMAIN failed.value.map \cup DOMAIN successful.value.map = DOMAIN results
            /\ length.value = IntV(Cardinality(DOMAIN successful.value.map)
                                     + Cardinality(DOMAIN failed.value.map))
            /\ view.method = "get_failed" => view.value = failed
            /\ view.method = "get_successful" => view.value = successful
            /\ view.method = "__len__" => view.value = length
            /\ netCalls = 1
            /\ outcome = BatchResult_from_dict(DecodeBody(response.body))

C12_Witness ==
    /\ BatchRead
    /\ view.method = "get_failed"
    /\ DOMAIN outcome.value.results.map = {"1", "2"}
    /\ outcome.value.results.map["1"] = Dict([f \in {"error"} |-> PyNone])
    /\ outcome.value.results.map["2"] = Dict([f \in {"scores"} |-> Dict(EmptyMap)])
    /\ DOMAIN view.value.value.map = {"1"}

\* analyze got a 200 response whose payload is a JSON object.
AnalyzeGotObject ==
    /\ pc = "done"
    /\ call.op = "analyze"
    /\ "body" \in DOMAIN response
    /\ response.status_code = 200
    /\ response.body.json = "object"

\* The member f of the object group of the payload, or the default when the
\* object or the member is absent.
Member(payload, group, f, default) ==
    IF group \in DOMAIN payload.map /\ f \in DOMAIN payload.map[group].map
    THEN payload.map[group].map[f]
    ELSE default

\* The number in hundredths, and == between an int and a float.
Hundredths(x) == IF x.tag = "int" THEN 100 * x.val ELSE x.val
NumEq(x, y) ==
    x.tag \in {"int", "float"} /\ y.tag \in {"int", "float"}
      /\ Hundredths(x) = Hundredths(y)

\* C13: AnalysisResult.from_dict never fails on a JSON-object payload from which
\* any subset of classification, scores, analysis and their members is absent:
\* an absent field takes its default (label 'neutral', confidence, outlook and
\* the four scores 0, the three counts 0), a present field the payload's value,
\* and raw is the whole payload.
C13_FromDictDefaults ==
    AnalyzeGotObject =>
        LET payload == response.body.data
            r == outcome.value
        IN  /\ outcome.kind = "return"
            /\ r.label = Member(payload, "classification", "label", Str(L_neutral))
            /\ NumEq(r.confidence, Member(payload, "classification", "confidence", IntV(0)))
            /\ NumEq(r.outlook, Member(payload, "scores", "outlook", IntV(0)))
            /\ \A f \in {"bullish", "bearish", "neutral", "confusion"} :
                  NumEq(r.scores[f], Member(payload, "scores", f, IntV(0)))
            /\ NumEq(r.word_count, Member(payload, "analysis", "word_count", IntV(0)))
            /\ NumEq(r.matched_count, Member(payload, "analysis", "matched_count", IntV(0)))
            /\ NumEq(r.negation_count,
                     Member(payload, "analysis", "negation_count", IntV(0)))
            /\ r.raw = payload

C13_Witness ==
    /\ AnalyzeGotObject
    /\ DOMAIN response.body.data.map = {"classification", "analysis"}
    /\ DOMAIN response.body.data.map["classification"].map = {"confidence"}
    /\ DOMAIN response.body.data.map["analysis"].map = {"word_count"}
    /\ outcome.kind = "return"
    /\ outcome.value.label = Str(L_neutral)
    /\ outcome.value.confidence = FloatV(88)
    /\ outcome.value.outlook = FloatV(0)
    /\ outcome.value.word_count = IntV(5)
    /\ outcome.value.negation_count = IntV(0)

\* analyze returned an AnalysisResult whose label is one of the API's labels.
AnalysisLabelled ==
    /\ pc = "done"
    /\ call.op = "analyze"
    /\ outcome.kind = "return"
    /\ outcome.value.label.tag = "str"
    /\ "val" \in DOMAIN outcome.value.label
    /\ outcome.value.label.val \in Labels

\* C14: for every label of {very_bullish, bullish, neutral, bearish, very_bearish}
\* exactly one of is_bullish, is_bearish, is_neutral is true: is_bullish iff the
\* label is bullish or very_bullish, is_bearish iff it is bearish or very_bearish,
\* is_neutral iff it is neutral; so a 200 response with classification.label =
\* very_bullish yields is_bullish = true.
C14_ExactlyOneView ==
    AnalysisLabelled =>
        LET label == outcome.value.label.val
            bullish == is_bullish(outcome.value)
            bearish == is_bearish(outcome.value)
            neutral == is_neutral(outcome.value)
        IN  /\ bullish = Returned(BoolV(label \in {L_bullish, L_very_bullish}))
            /\ bearish = Returned(BoolV(label \in {L_bearish, L_very_bearish}))
            /\ neutral = Returned(BoolV(label = L_neutral))
            /\ Cardinality({r \in {<<"is_bullish", bullish>>, <<"is_bearish", bearish>>,
                                   <<"is_neutral", neutral>>} : r[2].value.val}) = 1
            /\ view.method = "is_bullish" => view.value = bullish
            /\ view.method = "is_bearish" => view.value = bearish
            /\ view.method = "is_neutral" => view.value = neutral

C14_Witness ==
    /\ AnalysisLabelled
    /\ response.status_code = 200
    /\ Member(response.body.data, "classification", "label", PyNone)
          = Str(L_very_bullish)
    /\ view.method = "is_bullish"
    /\ view.value = Returned(BoolV(TRUE))

\* The operation op has handed its request to session.request.
Requested(op) ==
    /\ pc \in {"sent", "done"}
    /\ call.op = op
    /\ wire # NoRequest

\* The string token of an era: the value of a member, the string itself.
TokenOf(e) == IF e.tag = "Era" THEN Str(EraValue(e.name)) ELSE e

\* C15: the optional fields of the request body follow the arguments.  compare_eras
\* sends an 'eras' field exactly when a non-empty list is given, its elements the
\* given eras as string tokens in the same order, and none when the argument is
\* omitted or empty; analyze sends an 'era' field exactly when a non-empty era is
\* given; batch always sends an 'era' field, 'present' when the argument is
\* omitted, together with the unmodified texts list.
C15_BodyFollowsArguments ==
    /\ Requested("compare_eras") =>
          LET body == wire.json.map
              given == call.eras.tag = "list" /\ call.eras.items # <<>>
          IN  /\ "eras" \in DOMAIN body <=> given
              /\ DOMAIN body = IF given THEN {"text", "eras"} ELSE {"text"}
              /\ given =>
                    body["eras"] = List([i \in DOMAIN call.eras.items |->
                                           TokenOf(call.eras.items[i])])
    /\ Requested("analyze") =>
          LET body == wire.json.map
              given == call.era \notin {Omitted, PyNone, Str(<<>>)}
          IN  /\ "era" \in DOMAIN body <=> given
              /\ DOMAIN body = IF given THEN {"text", "era"} ELSE {"text"}
    /\ Requested("batch") =>
          LET body == wire.json.map IN
          /\ DOMAIN body = {"texts", "era"}
          /\ body["texts"] = call.texts
          /\ call.era = Omitted => body["era"] = Str(T_present)
          /\ call.era # Omitted => body["era"] = TokenOf(call.era)

C15_Witness ==
    /\ Requested("compare_eras")
    /\ call.eras = List(<<EraMember("MEME"), Str(T_bogus)>>)
    /\ wire.json.map["eras"] = List(<<Str(T_meme), Str(T_bogus)>>)

\* What the operation of call c does before session.request, on client cl.
LocalStep(cl, c) ==
    CASE c.op = "analyze" -> analyze(cl, c.text, ArgOr(c.era, PyNone))
      [] c.op = "compare_eras" -> compare_eras(cl, c.text, ArgOr(c.eras, PyNone))
      [] c.op = "batch" -> batch(cl, c.texts, ArgOr(c.era, BatchDefaultEra))

\* The outcome of the invocation c of client cl that received resp (no response
\* at all, a transport failure, or an HTTP response): a function of these alone.
OutcomeOf(cl, c, resp) ==
    IF resp = NoResponse THEN LocalStep(cl, c).error
    ELSE IF "failure" \in DOMAIN resp THEN _request_except(cl, resp.failure)
    ELSE Finish(c.op, resp)

\* The request of an invocation carries the client's configuration, and its
\* outcome is the one its arguments and its response determine, however the
\* invocation before it ended.
OutcomeDetermined ==
    /\ (pc \in {"sent", "done"} /\ call.op \in Operations /\ wire # NoRequest) =>
          /\ wire.headers = client.headers
          /\ wire.timeout = client.timeout
          /\ wire.url.base = client.base_url
    /\ (pc = "done" /\ call.op \in Operations) =>
          outcome = OutcomeOf(client, call, response)

\* No step changes the credential, base URL, timeout or headers of the client.
ClientKept == client # NoClient => client' = client

\* C16: calls are independent.  Through any sequence of analyze, compare_eras and
\* batch invocations, ending in a result, a local error, a transport failure or an
\* error status, the client's credential, base URL, timeout and session headers
\* never change, and the outcome of an invocation is determined by its arguments
\* and the response it receives, not by how earlier invocations ended.
C16_CallsIndependent == [][ClientKept]_vars /\ []OutcomeDetermined

C16_Witness ==
    /\ previous = "AuthenticationError"
    /\ pc = "done"
    /\ call.op = "analyze"
    /\ outcome.kind = "return"
    /\ client.api_key = Lit("sk-1")
    /\ client.timeout = IntV(5)
    /\ client.headers.map["Authorization"] = Fmt("Bearer {}", <<Lit("sk-1")>>)
    /\ wire.headers = client.headers

\* An HTTP response came back whose body is no JSON.
AnsweredNonJson == Answered /\ response.body.json = "invalid"

\* The object that stands for a body that is no JSON.
MessageObject(text) ==
    Dict([k \in {"message"} |-> Lit(IF text = "" THEN "Unknown error" ELSE text)])

\* C17: when the body of the response cannot be decoded as JSON, the payload is
\* the object with the single field 'message' holding the body text, or 'Unknown
\* error' for an empty body: an error status raises its error with that payload
\* and message, and status 200 raises no error at all: analyze returns an
\* AnalysisResult with label 'neutral', every numeric field 0 and raw that
\* object, compare_eras and batch return results with an empty results mapping.
C17_NonJsonBody ==
    AnsweredNonJson =>
        LET payload == MessageObject(response.body.text)
            r == outcome.value
        IN  IF response.status_code = 200
            THEN /\ outcome.kind = "return"
                 /\ r.raw = payload
                 /\ call.op = "analyze" =>
                       /\ r.label = Str(L_neutral)
                       /\ \A x \in {r.confidence, r.outlook, r.scores.bullish,
                                    r.scores.bearish, r.scores.neutral,
                                    r.scores.confusion, r.word_count, r.matched_count,
                                    r.negation_count} : NumEq(x, IntV(0))
                 /\ call.op \in {"compare_eras", "batch"} =>
                       r.results = Dict(EmptyMap)
            ELSE /\ outcome.kind = KindOfStatus(response.status_code)
                 /\ outcome.response = payload
                 /\ outcome.message = payload.map["message"]

C17_Witness ==
    /\ AnsweredNonJson
    /\ response.status_code = 200
    /\ response.body.text = "Bad Gateway"
    /\ call.op = "analyze"
    /\ outcome.kind = "return"
    /\ outcome.value.label = Str(L_neutral)
    /\ outcome.value.outlook = FloatV(0)
    /\ outcome.value.raw = Dict([k \in {"message"} |-> Lit("Bad Gateway")])

====
